---- MODULE Spec2Model ----
(***************************************************************************)
(* A model of vedo/assembly.py: the composite containers Group and         *)
(* Assembly, their bookkeeping lists, by-name lookup, flattening,          *)
(* cascading pickability, cloning and the 2D placement of clone2d.         *)
(*                                                                         *)
(* Objects live in a heap (a sequence of records); an object's identity is *)
(* its index in the heap.  The rendering engine is abstract: an actor is a *)
(* handle, a leaf object's geometry is its number of points, its position  *)
(* and the rotation applied to it.                                         *)
(***************************************************************************)
EXTENDS Integers, Sequences, FiniteSets, TLC

VARIABLES
    heap,      \* the objects the caller holds: heap[i] is the object of identity i
    result     \* the last call: what was called, what it returned, and the heap
               \* as the call left it, temporaries (clones, 2D copies) included

vars == <<heap, result>>

(***************************************************************************)
(* Bounds of the model.                                                    *)
(***************************************************************************)
MaxAsm == 2        \* assemblies built under Spec
MaxLen == 2        \* objects of an assembly, arguments of a constructor
LookupAsm == 1     \* assemblies built under SpecLookup
FlatAsm == 3       \* assemblies built under SpecFlat
PickAsm == 2       \* assemblies built under SpecPick
PickGroups == 1    \* groups built under SpecPick
CloneAsm == 2      \* assemblies built under SpecClone
PosAsm == 1        \* assemblies built under SpecPos
PosLen == 1        \* objects of an assembly under SpecPos

NONE == 0

Zero3 == <<0, 0, 0>>

(***************************************************************************)
(* Objects.  Every record has the same fields; a kind uses what it needs.  *)
(*   kind       "Points" (point-bearing, Prop3D actor), "Volume" (Prop3D   *)
(*              actor, no points), "ScalarBar" (a 2D actor), "Actor2D"     *)
(*              (the 2D copy clone2d makes), "Assembly", "Group"           *)
(*   scalarbar  NONE, or the identity of a ScalarBar or of a Group         *)
(*   objects, actors   Assembly: the two parallel lists                    *)
(*   parts      Assembly, Group: the engine's composite structure          *)
(*   contrib    Assembly, history: the scalarbars the code read from the   *)
(*              children as they joined, in order                          *)
(*   rot        the rotation about z applied so far (degrees mod 360)      *)
(*   wireframe  properties.GetRepresentation() == 1                        *)
(*   cloneof    the identity of the object this one was cloned from        *)
(*   twod       Actor2D: <<size, offset, position, ontop>>                 *)
(***************************************************************************)
NewObj(kind, name) ==
    [kind |-> kind, name |-> name, scalarbar |-> NONE,
     objects |-> <<>>, actors |-> <<>>, parts |-> <<>>, contrib |-> <<>>,
     position |-> Zero3, pickable |-> TRUE, npoints |-> 0, rot |-> 0,
     wireframe |-> FALSE, cloneof |-> NONE, twod |-> <<>>]

Leaf(kind, name, sb, np) ==
    [NewObj(kind, name) EXCEPT !.scalarbar = sb, !.npoints = np]

IsAssembly(h, x) == x # NONE /\ h[x].kind = "Assembly"

IsGroup(h, x) == x # NONE /\ h[x].kind = "Group"

\* Assembly, Group (and a scalarbar) are their own actor; a Points or a
\* Volume holds a separate engine actor, the handle -x.
ActorOf(h, x) ==
    IF h[x].kind \in {"Points", "Volume"} THEN 0 - x ELSE x

Owner(act) == IF act < 0 THEN 0 - act ELSE act

\* isinstance(a, Prop3D)
IsProp3D(h, act) == h[Owner(act)].kind \in {"Points", "Volume", "Assembly"}

\* a.scalarbar read through the actor; a leaf's actor shows the scalarbar of
\* its object.
ActorScalarbar(h, act) == h[Owner(act)].scalarbar

\* Python truth of a constructor argument: None is false, and so is an
\* object whose __len__ is 0 (Assembly defines __len__, no __bool__).
Truthy(h, m) ==
    /\ m # NONE
    /\ (IsAssembly(h, m) => Len(h[m].objects) > 0)

\* The engine's AddPart: a part already present is not added again.
AddPart(parts, p) ==
    IF \E i \in DOMAIN parts : parts[i] = p THEN parts ELSE Append(parts, p)

RECURSIVE AddParts(_, _)
AddParts(parts, seq) ==
    IF seq = <<>> THEN parts
    ELSE AddParts(AddPart(parts, Head(seq)), Tail(seq))

ActorsOf(h, objs) == [i \in DOMAIN objs |-> ActorOf(h, objs[i])]

(***************************************************************************)
(* Group.__init__(objects), from a list.                                   *)
(***************************************************************************)
GroupInit(h, objects) ==
    LET kept == SelectSeq(objects, LAMBDA a : Truthy(h, a))
    IN  Append(h, [NewObj("Group", "Group") EXCEPT
                      !.parts = AddParts(<<>>, ActorsOf(h, kept)),
                      !.pickable = FALSE])

\* Group.__iadd__(obj) for a single object
GroupIAdd(h, g, obj) ==
    IF Truthy(h, obj) THEN [h EXCEPT ![g].parts = AddPart(@, obj)] ELSE h

(***************************************************************************)
(* Assembly.__init__ once meshs is the list of arguments.                  *)
(***************************************************************************)
AssemblyInit(h, meshs) ==
    LET self == Len(h) + 1
        objs == SelectSeq(meshs, LAMBDA m : Truthy(h, m))
        acts == ActorsOf(h, objs)
        sbs  == SelectSeq([i \in DOMAIN acts |-> ActorScalarbar(h, acts[i])],
                          LAMBDA s : s # NONE)
        h1   == Append(h, [NewObj("Assembly", "Assembly") EXCEPT
                      !.objects = objs,
                      !.actors = acts,
                      !.parts = AddParts(<<>>,
                                   SelectSeq(acts, LAMBDA a : IsProp3D(h, a))),
                      !.contrib = sbs])
    IN  IF Len(sbs) > 1
        THEN LET h2 == GroupInit(h1, sbs)
             IN  [h2 EXCEPT ![self].scalarbar = Len(h2)]
        ELSE IF Len(sbs) = 1
        THEN [h1 EXCEPT ![self].scalarbar = sbs[1]]
        ELSE h1

\* for name in meshs: meshs[name].name = name
RECURSIVE ApplyNames(_, _)
ApplyNames(h, items) ==
    IF items = <<>> THEN h
    ELSE ApplyNames([h EXCEPT ![Head(items)[2]].name = Head(items)[1]],
                    Tail(items))

(***************************************************************************)
(* Assembly.__add__(obj): the heap it leaves and the error it raises.      *)
(* unpack_group calls Group.unpack, which Group does not define: a         *)
(* Group-typed scalarbar of obj raises AttributeError once the lists and   *)
(* the composite have been extended.                                       *)
(***************************************************************************)
AssemblyAdd_SkipActor(h, self, obj) ==
    IF obj = NONE \/ ~IsProp3D(h, ActorOf(h, obj))
    THEN [heap |-> h, err |-> "none"]
    ELSE [heap |-> [h EXCEPT ![self].objects = Append(@, obj)], err |-> "none"]

AssemblyAdd(h, self, obj) ==
    IF obj = NONE \/ ~IsProp3D(h, ActorOf(h, obj))
    THEN [heap |-> h, err |-> "none"]
    ELSE
    LET act == ActorOf(h, obj)
        h1  == [h EXCEPT ![self].objects = Append(@, obj),
                         ![self].actors = Append(@, act),
                         ![self].parts = AddPart(@, act)]
        osb == h[obj].scalarbar
        ssb == h[self].scalarbar
        h2  == [h1 EXCEPT ![self].contrib = Append(@, osb)]
    IN  IF osb = NONE THEN [heap |-> h1, err |-> "none"]
        ELSE IF ssb = NONE
        THEN [heap |-> [h2 EXCEPT ![self].scalarbar = osb], err |-> "none"]
        ELSE IF IsGroup(h, osb)
        THEN [heap |-> h2, err |-> "AttributeError"]
        ELSE IF IsGroup(h, ssb)
        THEN [heap |-> GroupIAdd(h2, ssb, osb), err |-> "none"]
        ELSE LET h3 == GroupInit(h2, <<ssb, osb>>)
             IN  [heap |-> [h3 EXCEPT ![self].scalarbar = Len(h3)],
                  err |-> "none"]

(***************************************************************************)
(* Lookup.  A key is an integer or a string: [t |-> "int", v |-> 1],       *)
(* [t |-> "str", v |-> "B"]; [t |-> "none"] is unpack()'s default.         *)
(* A return is [rk, ret, err]: rk says what came back ("obj", "list",      *)
(* "None", or "raise"), ret the identities, err the exception raised.      *)
(***************************************************************************)
Ret(rk, ret, err) == [rk |-> rk, ret |-> ret, err |-> err]

\* self.objects[i] with Python's negative indices
PyIndex(objs, i) ==
    LET k == IF i < 0 THEN i + Len(objs) + 1 ELSE i + 1
    IN  IF k \in DOMAIN objs THEN Ret("obj", <<objs[k]>>, "none")
        ELSE Ret("raise", <<>>, "IndexError")

\* for m in self.objects: if i == m.name: return m
ScanName_Last(h, objs, name) ==
    LET hits == {i \in DOMAIN objs : h[objs[i]].name = name}
    IN  IF hits = {} THEN NONE
        ELSE objs[CHOOSE i \in hits : \A j \in hits : j <= i]

RECURSIVE ScanName(_, _, _)
ScanName(h, objs, name) ==
    IF objs = <<>> THEN NONE
    ELSE IF h[Head(objs)].name = name THEN Head(objs)
    ELSE ScanName(h, Tail(objs), name)

\* Assembly.__getitem__(i)
GetItem(h, self, key) ==
    IF key.t = "int" THEN PyIndex(h[self].objects, key.v)
    ELSE IF key.t = "str"
         /\ ScanName(h, h[self].objects, key.v) # NONE
    THEN Ret("obj", <<ScanName(h, h[self].objects, key.v)>>, "none")
    ELSE Ret("None", <<>>, "none")

\* Assembly.unpack(i)
Unpack(h, self, key) ==
    IF key.t = "none" THEN Ret("list", h[self].objects, "none")
    ELSE IF key.t = "int" THEN PyIndex(h[self].objects, key.v)
    ELSE IF key.t = "str"
         /\ ScanName(h, h[self].objects, key.v) # NONE
    THEN Ret("obj", <<ScanName(h, h[self].objects, key.v)>>, "none")
    ELSE Ret("list", <<>>, "none")

\* Assembly.__len__
AssemblyLen(h, self) == Len(h[self].objects)

(***************************************************************************)
(* Cloning.  A call that makes objects returns the heap extended with      *)
(* them: [heap, id] or [heap, ids].                                        *)
(***************************************************************************)
Sum3(p) == p[1] + p[2] + p[3]

Plus3(p, q) == <<p[1] + q[1], p[2] + q[2], p[3] + q[3]>>

\* x.clone() of a leaf object (the engine's): a new object with the
\* geometry, name and properties of x
CloneLeaf(h, x) ==
    [heap |-> Append(h, [h[x] EXCEPT !.cloneof = x, !.scalarbar = NONE]),
     id |-> Len(h) + 1]

RECURSIVE CloneObj(_, _)
RECURSIVE CloneAll(_, _)

\* Assembly.clone(): newlist of a.clone(), then Assembly(newlist)
AssemblyClone(h, self) ==
    LET r  == CloneAll(h, h[self].objects)
        h1 == AssemblyInit(r.heap, r.ids)
    IN  [heap |-> [h1 EXCEPT ![Len(r.heap) + 1].cloneof = self],
         id |-> Len(r.heap) + 1]

CloneObj(h, x) ==
    IF IsAssembly(h, x) THEN AssemblyClone(h, x) ELSE CloneLeaf(h, x)

CloneAll(h, objs) ==
    IF objs = <<>> THEN [heap |-> h, ids |-> <<>>]
    ELSE LET c == CloneObj(h, Head(objs))
             r == CloneAll(c.heap, Tail(objs))
         IN  [heap |-> r.heap, ids |-> <<c.id>> \o r.ids]

\* x.clone().shift(apos)
CloneShift(h, x, apos) ==
    LET c == CloneObj(h, x)
    IN  [heap |-> [c.heap EXCEPT ![c.id].position = Plus3(@, apos)],
         id |-> c.id]

(***************************************************************************)
(* Assembly.recursive_unpack(): _genflatten([self]).                       *)
(***************************************************************************)
\* "if asum:" with asum = np.sum(apos)
Shifted(apos) == Sum3(apos) # 0

\* for x in elem.unpack(): yield x.clone().shift(apos) if asum else x
RECURSIVE YieldChildren(_, _, _)
YieldChildren(h, xs, apos) ==
    IF xs = <<>> THEN [heap |-> h, ids |-> <<>>]
    ELSE LET c == IF Shifted(apos) THEN CloneShift(h, Head(xs), apos)
                  ELSE [heap |-> h, id |-> Head(xs)]
             r == YieldChildren(c.heap, Tail(xs), apos)
         IN  [heap |-> r.heap, ids |-> <<c.id>> \o r.ids]

\* for elem in lst
RECURSIVE GenFlatten(_, _)
GenFlatten(h, lst) ==
    IF lst = <<>> THEN [heap |-> h, ids |-> <<>>]
    ELSE LET elem == Head(lst)
             y == IF IsAssembly(h, elem)
                  THEN YieldChildren(h, h[elem].objects, h[elem].position)
                  ELSE [heap |-> h, ids |-> <<elem>>]
             r == GenFlatten(y.heap, Tail(lst))
         IN  [heap |-> r.heap, ids |-> y.ids \o r.ids]

\* lst = [self]; lst[0] is an Assembly, so lst = lst[0].unpack()
RecursiveUnpack(h, self) == GenFlatten(h, h[self].objects)

(***************************************************************************)
(* pickable                                                                *)
(***************************************************************************)
RECURSIVE AssemblyPickable(_, _, _)
RECURSIVE PickEach(_, _, _)

\* for elem in self.recursive_unpack(): elem.pickable(value)
PickEach(h, elems, value) ==
    IF elems = <<>> THEN h
    ELSE PickEach(
            IF IsAssembly(h, Head(elems))
            THEN AssemblyPickable(h, Head(elems), value)
            ELSE [h EXCEPT ![Head(elems)].pickable = value],
            Tail(elems), value)

\* Assembly.pickable(value): the heap it leaves, temporaries included
AssemblyPickable(h, self, value) ==
    LET h1 == [h EXCEPT ![self].pickable = value]
        r  == RecursiveUnpack(h1, self)
    IN  PickEach(r.heap, r.ids, value)

\* Group.pickable(value)
GroupPickable(h, g, value) == [h EXCEPT ![g].pickable = value]

(***************************************************************************)
(* Assembly.clone2d.  A position is in hundredths of the renderer's unit:  *)
(* [1, 1] is <<100, 100>>, the padding 0.05 is 5.  pos is a keyword, the   *)
(* set of the tokens it is written with ([kw |-> {"top", "left"}]), or an  *)
(* explicit point ([kw |-> {}, xy |-> <<50, 50>>]).                        *)
(***************************************************************************)
Padding == 5

\* xbounds(), ybounds() less pos(): the engine's; a fixed box here
LocalBounds == [x0 |-> 0, x1 |-> 10, y0 |-> 0, y1 |-> 4]

\* "tok" in pos: a substring test ("cent" is in "center")
Has(pos, tok) ==
    \E t \in pos.kw : t = tok \/ (tok = "cent" /\ t = "center")

\* lines 516-552: [err, offset, position]
ResolvePos(pos) ==
    LET b == LocalBounds
        lo == 0 - 100 + Padding
        hi == 100 - Padding
        Bad == [err |-> "ValueError", offset |-> <<>>, position |-> <<>>]
        Ok(off, p) == [err |-> "none", offset |-> off, position |-> p]
    IN  IF Has(pos, "cent")
        THEN LET c0 == Ok(<<(b.x0 + b.x1) \div 2, (b.y0 + b.y1) \div 2>>,
                          <<0, 0>>)
                 c1 == IF Has(pos, "right")
                       THEN Ok(<<b.x1, c0.offset[2]>>, <<hi, 0>>) ELSE c0
                 c2 == IF Has(pos, "left")
                       THEN Ok(<<b.x0, c1.offset[2]>>, <<lo, 0>>) ELSE c1
                 c3 == IF Has(pos, "top")
                       THEN Ok(<<c2.offset[1], b.y1>>, <<0, hi>>) ELSE c2
                 c4 == IF Has(pos, "bottom")
                       THEN Ok(<<c3.offset[1], b.y0>>, <<0, lo>>) ELSE c3
             IN  c4
        ELSE IF Has(pos, "top")
        THEN IF Has(pos, "right") THEN Ok(<<b.x1, b.y1>>, <<hi, hi>>)
             ELSE IF Has(pos, "left") THEN Ok(<<b.x0, b.y1>>, <<lo, hi>>)
             ELSE Bad
        ELSE IF Has(pos, "bottom")
        THEN IF Has(pos, "right") THEN Ok(<<b.x1, b.y0>>, <<hi, lo>>)
             ELSE IF Has(pos, "left") THEN Ok(<<b.x0, b.y0>>, <<lo, lo>>)
             ELSE Bad
        ELSE Ok(<<b.x0, b.y0>>, pos.xy)

\* a.rotate_z(rotation) (the engine's)
RotateZ(h, a, rotation) == [h EXCEPT ![a].rot = (@ + rotation) % 360]

\* a.clone2d(size=s, offset=offset), then .pos(position).ontop(ontop):
\* a new 2D actor showing a as it is now
Actor2DOf(h, a, s, offset, position, ontop) ==
    Append(h, [NewObj("Actor2D", h[a].name) EXCEPT
                  !.cloneof = a, !.rot = h[a].rot, !.npoints = h[a].npoints,
                  !.twod = <<s, offset, position, ontop>>])

\* a.boundaries().lw(1).c(...): a new mesh of the boundary edges of a
Boundaries(h, a) ==
    Append(h, [h[a] EXCEPT !.cloneof = a, !.wireframe = FALSE,
                           !.scalarbar = NONE])

\* the body of "for a in self.recursive_unpack()"; scanned is the list the
\* code tests and never extends
Clone2dStep(h, a, scanned, g, c) ==
    IF \E i \in DOMAIN scanned : scanned[i] = a THEN h
    ELSE IF h[a].kind # "Points" THEN h
    ELSE IF h[a].npoints = 0 THEN h
    ELSE LET s == (c.size * 500) \div (LocalBounds.x1 - LocalBounds.x0)
         IN  IF h[a].wireframe
             THEN LET h1 == Boundaries(h, a)
                      b  == Len(h1)
                      h2 == IF c.rotation # 0 THEN RotateZ(h1, b, c.rotation)
                            ELSE h1
                      h3 == Actor2DOf(h2, b, s, c.offset, c.position, c.ontop)
                  IN  GroupIAdd(h3, g, Len(h3))
             ELSE LET h2 == IF c.rotation # 0 THEN RotateZ(h, a, c.rotation)
                            ELSE h
                      h3 == Actor2DOf(h2, a, s, c.offset, c.position, c.ontop)
                  IN  GroupIAdd(h3, g, Len(h3))

RECURSIVE Clone2dLoop(_, _, _, _, _)
Clone2dLoop(h, elems, scanned, g, c) ==
    IF elems = <<>> THEN h
    ELSE Clone2dLoop(Clone2dStep(h, Head(elems), scanned, g, c),
                     Tail(elems), scanned, g, c)

\* lines 554-592 once pos is resolved to rp; c carries size, rotation,
\* ontop, offset and position
Clone2dEach(r, g, c) == Clone2dLoop(r.heap, r.ids, <<>>, g, c)

Clone2dBody(h, self, rp, c) ==
    LET g  == Len(h) + 1
        h1 == Clone2dEach(RecursiveUnpack(GroupInit(h, <<>>), self), g, c)
    IN  [heap |-> [h1 EXCEPT ![g].name = h[self].name],
         err |-> "none", group |-> g, position |-> rp.position]

\* lines 516-592 with pos resolved to rp
Clone2dFrom(h, self, rp, size, rotation, ontop) ==
    IF rp.err # "none"
    THEN [heap |-> h, err |-> rp.err, group |-> NONE, position |-> <<>>]
    ELSE Clone2dBody(h, self, rp,
                     [size |-> size, rotation |-> rotation, ontop |-> ontop,
                      offset |-> rp.offset, position |-> rp.position])

\* clone2d were the keyword's error raised after the loop instead of before
AssemblyClone2d_LateRaise(h, self, pos, size, rotation, ontop, scale) ==
    IF ResolvePos(pos).err # "none"
    THEN [heap |-> Clone2dBody(h, self, ResolvePos(pos),
                      [size |-> IF scale # NONE THEN scale ELSE size,
                       rotation |-> rotation, ontop |-> ontop,
                       offset |-> <<LocalBounds.x0, LocalBounds.y0>>,
                       position |-> <<0, 0>>]).heap,
          err |-> ResolvePos(pos).err, group |-> NONE, position |-> <<>>]
    ELSE Clone2dFrom(h, self, ResolvePos(pos),
                     IF scale # NONE THEN scale ELSE size, rotation, ontop)

\* Assembly.clone2d(pos, size, rotation, ontop, scale):
\* [heap, err, group, position]
AssemblyClone2d(h, self, pos, size, rotation, ontop, scale) ==
    Clone2dFrom(h, self, ResolvePos(pos),
                IF scale # NONE THEN scale ELSE size, rotation, ontop)

(***************************************************************************)
(* The calls.  result records the last one: op, self, arg, what it         *)
(* returned (rk, ret, err), aux (clone2d: the position it resolved) and    *)
(* tmp, the objects the call made and returned or dropped: tmp[k] is the   *)
(* object of identity Len(heap) + k.                                       *)
(***************************************************************************)
Assemblies(h) == {x \in DOMAIN h : h[x].kind = "Assembly"}

Groups(h) == {x \in DOMAIN h : h[x].kind = "Group"}

\* what a caller hands to a constructor: renderable objects
Renderable(h) ==
    {x \in DOMAIN h : h[x].kind \in {"Points", "Volume", "Assembly"}}

Points(h) == {x \in DOMAIN h : h[x].kind = "Points"}

\* the assembly built last: the one the caller is still extending
Newest(h) == CHOOSE a \in Assemblies(h) : \A b \in Assemblies(h) : b <= a

SeqsUpTo(S, n) == UNION {[1..k -> S] : k \in 0..n}

Persist(ext, n) == SubSeq(ext, 1, n)

Temps(ext, n) == SubSeq(ext, n + 1, Len(ext))

Call(op, self, arg, r, aux, tmp) ==
    [op |-> op, self |-> self, arg |-> arg,
     rk |-> r.rk, ret |-> r.ret, err |-> r.err, aux |-> aux, tmp |-> tmp]

NoCall == Call("none", NONE, NONE, Ret("None", <<>>, "none"), <<>>, <<>>)

\* a constructor or an __add__ that returned: the assembly is in the heap
Built == Call("build", NONE, NONE, Ret("obj", <<>>, "none"), <<>>, <<>>)

\* the heap as the last call left it
Ext == heap \o result.tmp

\* Assembly([m1, m2, ...]): a single list
ConstructList(args) ==
    /\ heap' = AssemblyInit(heap, args)
    /\ result' = Built

\* Assembly(m1, m2, ...): flattened unless there is exactly one argument,
\* which is then iterated; an Assembly iterates over its objects through
\* __getitem__.
ConstructVariadic(args) ==
    /\ Len(args) = 1 => IsAssembly(heap, args[1])
    /\ heap' = AssemblyInit(heap, IF Len(args) = 1 THEN heap[args[1]].objects
                                  ELSE args)
    /\ result' = Built

\* Assembly({name: object, ...}); items are the <<name, object>> pairs
ConstructDict(items) ==
    /\ \A i, j \in DOMAIN items : items[i][1] = items[j][1] => i = j
    /\ heap' = AssemblyInit(ApplyNames(heap, items),
                            [i \in DOMAIN items |-> items[i][2]])
    /\ result' = Built

\* self + obj
AddCall(self, obj) ==
    LET r == AssemblyAdd(heap, self, obj)
    IN  /\ heap' = r.heap
        /\ result' = IF r.err = "none" THEN Built
                      ELSE Call("add", NONE, NONE, Ret("raise", <<>>, r.err),
                                <<>>, <<>>)

\* self[key]
GetItemCall(self, key) ==
    /\ heap' = heap
    /\ result' = Call("getitem", self, key, GetItem(heap, self, key),
                      <<>>, <<>>)

\* self.unpack(key)
UnpackCall(self, key) ==
    /\ heap' = heap
    /\ result' = Call("unpack", self, key, Unpack(heap, self, key),
                      <<>>, <<>>)

\* self.pos(p) (the engine's SetPosition)
SetPosition(self, p) ==
    /\ heap' = [heap EXCEPT ![self].position = p]
    /\ result' = Call("pos", self, p, Ret("obj", <<self>>, "none"),
                      <<>>, <<>>)

\* self.recursive_unpack()
RecursiveUnpackCall(self) ==
    LET r == RecursiveUnpack(heap, self)
    IN  /\ heap' = Persist(r.heap, Len(heap))
        /\ result' = Call("recursive_unpack", self, NONE,
                          Ret("list", r.ids, "none"), <<>>,
                          Temps(r.heap, Len(heap)))

\* self.pickable(value)
PickableCall(self, value) ==
    LET h1 == AssemblyPickable(heap, self, value)
    IN  /\ heap' = Persist(h1, Len(heap))
        /\ result' = Call("pickable", self, value,
                          Ret("obj", <<self>>, "none"), <<>>, <<>>)

\* Group(objects)
GroupNew(objs) ==
    /\ heap' = GroupInit(heap, objs)
    /\ result' = Call("group", Len(heap) + 1, objs,
                      Ret("obj", <<Len(heap) + 1>>, "none"), <<>>, <<>>)

\* group.pickable(value)
GroupPickableCall(g, value) ==
    /\ heap' = GroupPickable(heap, g, value)
    /\ result' = Call("group_pickable", g, value,
                      Ret("obj", <<g>>, "none"), <<>>, <<>>)

\* self.clone()
CloneCall(self) ==
    LET r == AssemblyClone(heap, self)
    IN  /\ heap' = Persist(r.heap, Len(heap))
        /\ result' = Call("clone", self, NONE, Ret("obj", <<r.id>>, "none"),
                          <<>>, Temps(r.heap, Len(heap)))

\* what clone2d leaves behind, given r = [heap, err, group, position]
Clone2dDone(self, arg, r) ==
    /\ heap' = Persist(r.heap, Len(heap))
    /\ result' = Call("clone2d", self, arg,
                      IF r.err = "none"
                      THEN Ret("obj", <<r.group>>, "none")
                      ELSE Ret("raise", <<>>, r.err),
                      r.position, Temps(r.heap, Len(heap)))

\* self.clone2d(pos, size, rotation, ontop, scale)
Clone2dCall(self, pos, size, rotation, ontop, scale) ==
    Clone2dDone(self,
                [pos |-> pos, size |-> size, rotation |-> rotation,
                 ontop |-> ontop, scale |-> scale],
                AssemblyClone2d(heap, self, pos, size, rotation, ontop, scale))

(***************************************************************************)
(* Spec: construction and __add__ over objects with scalarbars.  Objects 1 *)
(* and 2 are point sets with a scalarbar each (3 and 4).  The caller       *)
(* builds bottom-up: it extends the assembly it built last.                *)
(***************************************************************************)
DictNames == {"A", "B"}

Init ==
    /\ heap = << Leaf("Points", "A", 3, 8),
                 Leaf("Points", "B", 4, 8),
                 Leaf("ScalarBar", "", NONE, 0),
                 Leaf("ScalarBar", "", NONE, 0) >>
    /\ result = NoCall

Next ==
    \/ /\ Cardinality(Assemblies(heap)) < MaxAsm
       /\ \E args \in SeqsUpTo(Renderable(heap) \cup {NONE}, MaxLen) :
              ConstructList(args)
    \/ /\ Cardinality(Assemblies(heap)) < MaxAsm
       /\ \E args \in SeqsUpTo(Renderable(heap) \cup {NONE}, MaxLen) :
              ConstructVariadic(args)
    \/ /\ Cardinality(Assemblies(heap)) < MaxAsm
       /\ \E items \in SeqsUpTo(DictNames \X Points(heap), MaxLen) :
              ConstructDict(items)
    \/ \E self \in Assemblies(heap), obj \in DOMAIN heap \cup {NONE} :
           /\ self = Newest(heap) /\ obj # self
           /\ AssemblyLen(heap, self) < MaxLen
           /\ AddCall(self, obj)

Spec == Init /\ [][Next]_vars

\* C1: in every state reached by constructing assemblies (from a list, from
\* variadic arguments, from a mapping) and applying __add__ (accepted,
\* rejected or raising), every assembly has len(objects) == len(actors) and
\* actors[i] is the actor of objects[i].
C1_ParallelLists ==
    \A a \in Assemblies(heap) :
        /\ Len(heap[a].objects) = Len(heap[a].actors)
        /\ \A i \in DOMAIN heap[a].objects :
               heap[a].actors[i] = ActorOf(heap, heap[a].objects[i])

\* an __add__ has just raised after extending an assembly to two objects
C1_Witness ==
    /\ result.op = "add" /\ result.err = "AttributeError"
    /\ \E a \in Assemblies(heap) : Len(heap[a].objects) = 2

\* the primitive scalarbars under s: s itself, or the members of a Group,
\* unpacked to any depth
RECURSIVE FlatBars(_, _)
FlatBars(h, s) ==
    IF IsGroup(h, s)
    THEN UNION {FlatBars(h, h[s].parts[i]) : i \in DOMAIN h[s].parts}
    ELSE {s}

\* C2: the scalarbar of every assembly is None when no child contributed
\* one, the contributed scalarbar itself when exactly one child did, and
\* with two or more a Group with no Group among its members, whose members
\* are the union of the contributed scalarbars, unpacked.
C2_ScalarbarInvariant ==
    \A a \in Assemblies(heap) :
        LET c  == heap[a].contrib
            sb == heap[a].scalarbar
        IN  /\ Len(c) = 0 => sb = NONE
            /\ Len(c) = 1 => sb = c[1]
            /\ Len(c) >= 2 =>
                  /\ IsGroup(heap, sb)
                  /\ \A i \in DOMAIN heap[sb].parts :
                         ~IsGroup(heap, heap[sb].parts[i])
                  /\ {heap[sb].parts[i] : i \in DOMAIN heap[sb].parts}
                        = UNION {FlatBars(heap, c[i]) : i \in DOMAIN c}

(***************************************************************************)
(* SpecLookup: construction, __add__ and lookup over named objects         *)
(* without scalarbars; two of them bear the same name.                     *)
(***************************************************************************)
InitPlain ==
    /\ heap = << Leaf("Points", "A", NONE, 8),
                 Leaf("Points", "B", NONE, 8),
                 Leaf("Volume", "B", NONE, 0) >>
    /\ result = NoCall

Keys ==
    {[t |-> "str", v |-> n] : n \in {"A", "B", "Z", "Assembly"}}
        \cup {[t |-> "int", v |-> i] : i \in {-1, 0, 2}}

NextLookup ==
    \/ /\ Cardinality(Assemblies(heap)) < LookupAsm
       /\ \E args \in SeqsUpTo(Renderable(heap) \cup {NONE}, MaxLen) :
              ConstructList(args)
    \/ /\ Cardinality(Assemblies(heap)) < LookupAsm
       /\ \E items \in SeqsUpTo(DictNames \X Points(heap), MaxLen) :
              ConstructDict(items)
    \/ \E self \in Assemblies(heap), obj \in DOMAIN heap \cup {NONE} :
           /\ self = Newest(heap) /\ obj # self
           /\ AssemblyLen(heap, self) < MaxLen
           /\ AddCall(self, obj)
    \/ \E self \in Assemblies(heap), key \in Keys : GetItemCall(self, key)
    \/ \E self \in Assemblies(heap), key \in Keys \cup {[t |-> "none"]} :
           UnpackCall(self, key)

SpecLookup == InitPlain /\ [][NextLookup]_vars

\* the positions in objs of the objects named name
NamedAt(h, objs, name) == {i \in DOMAIN objs : h[objs[i]].name = name}

Positions == {Zero3, <<5, -5, 0>>, <<1, 0, 0>>}

InitFlat ==
    /\ heap = << Leaf("Points", "A", NONE, 8),
                 Leaf("Volume", "B", NONE, 0) >>
    /\ result = NoCall

NextFlat ==
    \/ /\ Cardinality(Assemblies(heap)) < FlatAsm
       /\ \E args \in SeqsUpTo(Renderable(heap) \cup {NONE}, MaxLen) :
              ConstructList(args)
    \/ \E self \in Assemblies(heap), obj \in DOMAIN heap \cup {NONE} :
           /\ self = Newest(heap) /\ obj # self
           /\ AssemblyLen(heap, self) < MaxLen
           /\ AddCall(self, obj)
    \/ \E self \in Assemblies(heap), p \in Positions :
           /\ self = Newest(heap)
           /\ SetPosition(self, p)
    \/ \E self \in Assemblies(heap) : RecursiveUnpackCall(self)

SpecFlat == InitFlat /\ [][NextFlat]_vars

\* the places of a flattened assembly, in order: <<n, x>> for the child x of
\* a directly nested assembly n, <<NONE, x>> for a direct child x that is
\* no assembly
RECURSIVE Slots(_, _)
Slots(h, objs) ==
    IF objs = <<>> THEN <<>>
    ELSE LET e == Head(objs)
         IN  (IF IsAssembly(h, e)
              THEN [i \in DOMAIN h[e].objects |-> <<e, h[e].objects[i]>>]
              ELSE << <<NONE, e>> >>) \o Slots(h, Tail(objs))

\* C3: recursive_unpack() returns, for each child of a directly nested
\* assembly, a translated copy of distinct identity when the nested
\* assembly's position is a nonzero vector (also one whose components sum
\* to zero), and the child itself when the position is the zero vector.
\* (A child that is a point set or a volume is translated from where it
\* is; a child that is itself an assembly is cloned into a new assembly.)
C3_UnpackCopies ==
    result.op = "recursive_unpack" =>
        LET sl  == Slots(heap, heap[result.self].objects)
            ret == result.ret
        IN  /\ Len(ret) = Len(sl)
            /\ \A k \in DOMAIN sl :
                  sl[k][1] # NONE =>
                      LET n == sl[k][1]
                          x == sl[k][2]
                      IN  IF heap[n].position # Zero3
                          THEN /\ ret[k] # x
                               /\ ret[k] \notin DOMAIN heap
                               /\ Ext[ret[k]].cloneof = x
                               /\ ~IsAssembly(heap, x) =>
                                      Ext[ret[k]].position
                                         = Plus3(heap[x].position,
                                                 heap[n].position)
                          ELSE ret[k] = x

\* C9: recursive_unpack() is a complete flatten: whatever the nesting depth
\* the sequence it returns holds no Assembly, and for an assembly without
\* nested assemblies it is the direct children, in order.
C9_FlatLeaves ==
    result.op = "recursive_unpack" =>
        LET objs == heap[result.self].objects
        IN  /\ \A k \in DOMAIN result.ret : ~IsAssembly(Ext, result.ret[k])
            /\ (\A i \in DOMAIN objs : ~IsAssembly(heap, objs[i]))
                   => result.ret = objs

(***************************************************************************)
(* SpecPick: pickability of assemblies and groups.                         *)
(***************************************************************************)
InitPick ==
    /\ heap = << Leaf("Points", "A", NONE, 8) >>
    /\ result = NoCall

NextPick ==
    \/ /\ Cardinality(Assemblies(heap)) < PickAsm
       /\ \E args \in SeqsUpTo(Renderable(heap) \cup {NONE}, MaxLen) :
              ConstructList(args)
    \/ \E self \in Assemblies(heap), obj \in DOMAIN heap \cup {NONE} :
           /\ self = Newest(heap) /\ obj # self
           /\ AssemblyLen(heap, self) < MaxLen
           /\ AddCall(self, obj)
    \/ \E self \in Assemblies(heap), p \in Positions :
           /\ self = Newest(heap)
           /\ SetPosition(self, p)
    \/ \E self \in Assemblies(heap), value \in BOOLEAN :
           PickableCall(self, value)
    \/ /\ Cardinality(Groups(heap)) < PickGroups
       /\ \E objs \in SeqsUpTo(Points(heap), MaxLen) : GroupNew(objs)
    \/ \E g \in Groups(heap), value \in BOOLEAN : GroupPickableCall(g, value)

SpecPick == InitPick /\ [][NextPick]_vars

\* the leaf objects an assembly holds: its direct children that are no
\* assembly, and those of its directly nested assemblies
HeldLeaves(h, a) ==
    LET sl == Slots(h, h[a].objects)
    IN  {sl[k][2] : k \in {j \in DOMAIN sl : ~IsAssembly(h, sl[j][2])}}

\* C8: Assembly.pickable(value) leaves the assembly and every leaf object
\* it holds with pickability value, whatever the position of a nested
\* assembly; Group.pickable(value) sets the group's flag and changes no
\* other object.
C8_PickableCascade ==
    [][/\ result'.op = "pickable" =>
              /\ heap'[result'.self].pickable = result'.arg
              /\ \A x \in HeldLeaves(heap, result'.self) :
                     heap'[x].pickable = result'.arg
       /\ result'.op = "group_pickable" =>
              /\ heap'[result'.self].pickable = result'.arg
              /\ \A x \in DOMAIN heap \ {result'.self} : heap'[x] = heap[x]
      ]_vars

(***************************************************************************)
(* SpecClone: clone() and clone2d() of assemblies built by construction    *)
(* and __add__.  The pool: a point set, a point set without points, a      *)
(* point set shown as wireframe, a volume.                                 *)
(***************************************************************************)
InitClone ==
    /\ heap = << Leaf("Points", "A", NONE, 3),
                 Leaf("Points", "B", NONE, 0),
                 [Leaf("Points", "C", NONE, 2) EXCEPT !.wireframe = TRUE],
                 Leaf("Volume", "V", NONE, 0) >>
    /\ result = NoCall

BottomLeft == [kw |-> {"bottom", "left"}, xy |-> <<>>]

\* the arguments of clone2d the caller chooses from
Rotations == {0, 180}

Scales == {NONE, 2}

NextClone ==
    \/ \E args \in SeqsUpTo(Renderable(heap), MaxLen) :
          /\ Cardinality(Assemblies(heap)) < CloneAsm
          /\ ConstructList(args)
    \/ \E self \in Assemblies(heap), obj \in Renderable(heap) :
          /\ self = Newest(heap)
          /\ obj # self
          /\ AssemblyLen(heap, self) < MaxLen
          /\ AddCall(self, obj)
    \/ \E self \in Assemblies(heap) : CloneCall(self)
    \/ \E self \in Assemblies(heap), rotation \in Rotations,
          scale \in Scales :
          Clone2dCall(self, BottomLeft, 1, rotation, FALSE, scale)

SpecClone == InitClone /\ [][NextClone]_vars

Range(f) == {f[i] : i \in DOMAIN f}

\* C6: the Group clone2d returns holds exactly one 2D copy per distinct (by
\* identity) element of recursive_unpack() that is a point set with
\* npoints > 0: an element occurring more than once is processed once.
C6_OneCopyPerElement ==
    (result.op = "clone2d" /\ result.err = "none") =>
        LET r    == RecursiveUnpack(heap, result.self)
            want == {x \in Range(r.ids) :
                        r.heap[x].kind = "Points" /\ r.heap[x].npoints > 0}
        IN  Len(Ext[result.ret[1]].parts) = Cardinality(want)

\* C10: clone() of an assembly built by construction and __add__ (one
\* holding an empty nested assembly included) returns a new assembly of the
\* same length whose i-th object is the clone of the original's i-th object
\* and is no object of the original; the original's objects and actors are
\* left as they were.
C10_CloneKeepsLength ==
    [][result'.op = "clone" =>
        LET n    == Len(heap)
            ext  == heap' \o result'.tmp
            self == result'.self
            c    == ext[result'.ret[1]]
        IN  /\ result'.ret[1] > n
            /\ c.kind = "Assembly"
            /\ Len(c.objects) = Len(heap[self].objects)
            /\ \A i \in DOMAIN c.objects :
                  /\ i \in DOMAIN heap[self].objects
                  /\ ext[c.objects[i]].cloneof = heap[self].objects[i]
                  /\ c.objects[i] \notin Range(heap[self].objects)
            /\ heap'[self].objects = heap[self].objects
            /\ heap'[self].actors = heap[self].actors]_vars

\* C11: clone2d is a pure conversion with respect to its source: for any
\* pos, size, rotation (rotation # 0 included) and ontop, the call leaves the
\* source assembly's objects and actors and every held object's geometry and
\* orientation as they were, so the same call made again on the same
\* assembly yields an equal result.
C11_Clone2dPure ==
    [][(result'.op = "clone2d" /\ result'.err = "none") =>
        LET a     == result'.arg
            again == AssemblyClone2d(heap', result'.self, a.pos, a.size,
                                     a.rotation, a.ontop, a.scale)
        IN  /\ Len(heap') = Len(heap)
            /\ \A x \in DOMAIN heap :
                  /\ heap'[x].objects = heap[x].objects
                  /\ heap'[x].actors = heap[x].actors
                  /\ heap'[x].npoints = heap[x].npoints
                  /\ heap'[x].position = heap[x].position
                  /\ heap'[x].rot = heap[x].rot
            /\ Temps(again.heap, Len(heap')) = result'.tmp]_vars

(***************************************************************************)
(* SpecPos: the placement keyword of clone2d.  A keyword is any set of the *)
(* five tokens that names "center", "top" or "bottom" (a keyword of        *)
(* "left"/"right" alone is handed to the engine as it is); an explicit     *)
(* point is a pair.                                                        *)
(***************************************************************************)
Tokens == {"center", "top", "bottom", "left", "right"}

PosArgs ==
    {[kw |-> S, xy |-> <<>>] :
        S \in {T \in SUBSET Tokens : T \cap {"center", "top", "bottom"} # {}}}
    \cup {[kw |-> {}, xy |-> <<50, 50>>]}

InitPos ==
    /\ heap = << Leaf("Points", "A", NONE, 3),
                 [Leaf("Points", "C", NONE, 2) EXCEPT !.wireframe = TRUE] >>
    /\ result = NoCall

NextPos ==
    \/ \E args \in SeqsUpTo(Renderable(heap), PosLen) :
          /\ Cardinality(Assemblies(heap)) < PosAsm
          /\ ConstructList(args)
    \/ \E self \in Assemblies(heap), pos \in PosArgs,
          rotation \in Rotations :
          Clone2dCall(self, pos, 1, rotation, FALSE, NONE)

SpecPos == InitPos /\ [][NextPos]_vars

\* C4: with a keyword containing "cent", clone2d's position starts at [0, 0]
\* and is nudged on each axis by the edge token named for that axis
\* ("right" x = 1 - 0.05, "left" x = -1 + 0.05, "top" y = 1 - 0.05,
\* "bottom" y = -1 + 0.05); an axis with no edge token keeps 0, so a keyword
\* naming a horizontal and a vertical edge is nudged on both axes, and pure
\* "center" gives [0, 0].  (Keywords naming both edges of one axis are left
\* out: the statement does not say which wins.)
C4_CenterNudges ==
    LET pos == result.arg.pos
        nx  == IF Has(pos, "right") THEN 100 - Padding
               ELSE IF Has(pos, "left") THEN Padding - 100 ELSE 0
        ny  == IF Has(pos, "top") THEN 100 - Padding
               ELSE IF Has(pos, "bottom") THEN Padding - 100 ELSE 0
    IN  (/\ result.op = "clone2d"
         /\ Has(pos, "cent")
         /\ ~(Has(pos, "left") /\ Has(pos, "right"))
         /\ ~(Has(pos, "top") /\ Has(pos, "bottom")))
        => result.aux = <<nx, ny>>

\* a keyword with "top" or "bottom" but no "left", "right" or "cent"
Incomplete(pos) ==
    /\ Has(pos, "top") \/ Has(pos, "bottom")
    /\ ~Has(pos, "left") /\ ~Has(pos, "right") /\ ~Has(pos, "cent")

====
